---- MODULE Spec2Model ----
(***************************************************************************)
(* Model of the Smart City dashboard engine of                             *)
(* smartcity-frontend/src/App.jsx.  The file holds two versions of the     *)
(* App component: the memoized one (lines 1-332) and the plain one (lines  *)
(* 333-598).  The variable `version` says which of the two is running.     *)
(*                                                                         *)
(* Strings that the code splits are sequences of tokens: a key is a        *)
(* sequence of colon-free chunks and ":" delimiters, a value is a sequence *)
(* of characters.  A JSON object is a sequence of <<key, value>> entries   *)
(* in the order for-in traverses them.                                     *)
(***************************************************************************)
EXTENDS FiniteSets, Integers, Sequences, TLC

VARIABLES version, esAvailable, phase, data, cities, isLoading, esState, esOpens,
          timers, pollTimer, inflight, everLoaded, raced, last, probe

vars == <<version, esAvailable, phase, data, cities, isLoading, esState, esOpens,
          timers, pollTimer, inflight, everLoaded, raced, last, probe>>

(***************************************************************************)
(* Program constants                                                       *)
(***************************************************************************)
DebounceMs == 1000

PollMs == 10000

\* Bounds of the model
MaxTimers == 2

MaxInflight == 2

\* Granularity of the model's clock: half a debounce interval
TickMs == DebounceMs \div 2

\* The value of pollTimer when no interval is set
NoTimer == 0 - 1

\* A value that is no JSON object: its single entry is not a <<key, value>> pair
Undefined == << <<>> >>

Versions == {"memo", "plain"}

(***************************************************************************)
(* Strings                                                                 *)
(***************************************************************************)
Key(ns, metric, city) == <<ns, ":", metric, ":", city>>

RECURSIVE SplitFrom(_, _, _)
SplitFrom(toks, cur, acc) ==
  IF toks = <<>> THEN Append(acc, cur)
  ELSE IF Head(toks) = ":" THEN SplitFrom(Tail(toks), "", Append(acc, cur))
  ELSE SplitFrom(Tail(toks), cur \o Head(toks), acc)

\* key.split(":")
Split(key) == SplitFrom(key, "", <<>>)

(***************************************************************************)
(* Metric registry                                                         *)
(***************************************************************************)
KnownMetrics ==
  {"temperature", "humidity", "air_quality", "energy_consumption",
   "traffic_density", "waste_level", "water_quality", "noise_level"}

METRIC_CONFIG ==
  [m \in KnownMetrics |->
     CASE m = "temperature"        -> [icon |-> "thermometer", unit |-> "C"]
       [] m = "humidity"           -> [icon |-> "droplet", unit |-> "%"]
       [] m = "air_quality"        -> [icon |-> "fog", unit |-> "AQI"]
       [] m = "energy_consumption" -> [icon |-> "bolt", unit |-> "MW"]
       [] m = "traffic_density"    -> [icon |-> "trafficlight", unit |-> "%"]
       [] m = "waste_level"        -> [icon |-> "bin", unit |-> "%"]
       [] m = "water_quality"      -> [icon |-> "sweat", unit |-> "PH"]
       [] m = "noise_level"        -> [icon |-> "speaker", unit |-> "dB"]]

DEFAULT_CONFIG == [icon |-> "chart", unit |-> "", gradient |-> "#3498db"]

\* Property names every object literal inherits from Object.prototype
InheritedProps == {"constructor", "toString", "valueOf", "hasOwnProperty", "__proto__"}

\* METRIC_CONFIG[metric] || { ...DEFAULT_CONFIG, icon, unit }
ConfigOf(metric) ==
  IF metric \in KnownMetrics THEN METRIC_CONFIG[metric]
  ELSE IF metric \in InheritedProps THEN [icon |-> "undefined", unit |-> "undefined"]
  ELSE DEFAULT_CONFIG

(***************************************************************************)
(* Snapshots                                                               *)
(***************************************************************************)
mockData ==
  << <<Key("smartcity", "temperature", "NewYork"),       <<"2", "2", ".", "5">> >>,
     <<Key("smartcity", "humidity", "NewYork"),          <<"6", "5">> >>,
     <<Key("smartcity", "air_quality", "NewYork"),       <<"4", "5">> >>,
     <<Key("smartcity", "temperature", "London"),        <<"1", "8", ".", "3">> >>,
     <<Key("smartcity", "humidity", "London"),           <<"7", "2">> >>,
     <<Key("smartcity", "traffic_density", "London"),    <<"3", "4">> >>,
     <<Key("smartcity", "temperature", "Tokyo"),         <<"2", "5", ".", "7">> >>,
     <<Key("smartcity", "humidity", "Tokyo"),            <<"5", "8">> >>,
     <<Key("smartcity", "energy_consumption", "Tokyo"),  <<"2", "3", "4">> >> >>

\* Bodies a response of GET /data/all may carry
LiveBody ==
  << <<Key("smartcity", "temperature", "Paris"), <<"3", "1">> >>,
     <<Key("city", "noise_level", "Paris"),     <<"4", "0">> >> >>

EmptyBody == <<>>

ErrorBody == << << <<"error">>, <<"d", "o", "w", "n">> >> >>

\* A body res.json() rejects
NotJson == << <<"<html>">> >>

IsJson(body) == \A i \in 1..Len(body) : Len(body[i]) = 2

JsonBodies == {LiveBody, EmptyBody, ErrorBody}

Bodies == JsonBodies \cup {NotJson}

Statuses == {200, 500}

IsOk(status) == status >= 200 /\ status <= 299

(***************************************************************************)
(* Aggregation: the cities grouping                                        *)
(***************************************************************************)
HasCity(cityMap, city) == \E i \in 1..Len(cityMap) : cityMap[i].city = city

PushMetric(cityMap, city, entry) ==
  IF HasCity(cityMap, city)
  THEN [i \in 1..Len(cityMap) |->
          IF cityMap[i].city = city
          THEN [cityMap[i] EXCEPT !.metrics = Append(@, entry)]
          ELSE cityMap[i]]
  ELSE Append(cityMap, [city |-> city, metrics |-> <<entry>>])

\* What the loop body reads out of a key it does not skip
Skipped == [skipped |-> TRUE]

ParseKey_AtLeastThree(key) ==
  LET parts == Split(key) IN
    IF Len(parts) < 3 THEN Skipped
    ELSE [metric |-> parts[2], city |-> parts[3]]

\* const parts = key.split(":"); if (parts.length !== 3) continue; ...
ParseKey(key) ==
  LET parts == Split(key) IN
    IF Len(parts) # 3 THEN Skipped
    ELSE [metric |-> parts[2], city |-> parts[3]]

\* One iteration of the for-in loop body
GroupEntry(cityMap, kv) ==
  LET parsed == ParseKey(kv[1]) IN
    IF parsed = Skipped THEN cityMap
    ELSE IF parsed.city \in InheritedProps
         THEN cityMap \* cityMap[city] is inherited: push throws, caught and logged
         ELSE PushMetric(cityMap, parsed.city,
                [metric |-> parsed.metric, value |-> kv[2],
                 config |-> ConfigOf(parsed.metric)])

RECURSIVE GroupFrom(_, _)
GroupFrom(cityMap, entries) ==
  IF entries = <<>> THEN cityMap
  ELSE GroupFrom(GroupEntry(cityMap, Head(entries)), Tail(entries))

IsMapping(d) == \A i \in 1..Len(d) : Len(d[i]) = 2

\* const cities = ...
Cities(d) ==
  IF ~IsMapping(d) \/ Len(d) = 0 THEN <<>>
  ELSE GroupFrom(<<>>, d)

CityNames(cityMap) == {cityMap[i].city : i \in 1..Len(cityMap)}

\* const stats = { cityCount, metricCount }
Stats(cityMap) ==
  LET RECURSIVE Sum(_)
      Sum(groups) == IF groups = <<>> THEN 0
                     ELSE Len(Head(groups).metrics) + Sum(Tail(groups))
  IN [cityCount |-> Len(cityMap), metricCount |-> Sum(cityMap)]

\* What App renders: the loading screen, the empty state or the city cards
View ==
  IF isLoading THEN "loading"
  ELSE IF Len(cities) = 0 THEN "empty"
  ELSE "dashboard"

(***************************************************************************)
(* The engine                                                              *)
(***************************************************************************)
Origins == {"mount", "debounce", "message", "poll", "retry"}

Event(op, origin, status) == [op |-> op, origin |-> origin, status |-> status]

Settlement(op, origin, status, body) ==
  [op |-> op, origin |-> origin, status |-> status, body |-> body]

NoProbe == [kind |-> "none"]

Init ==
  /\ version \in Versions
  /\ esAvailable \in BOOLEAN
  /\ phase = "init"
  /\ data = <<>>
  /\ cities = <<>>
  /\ isLoading = TRUE
  /\ esState = "none"
  /\ esOpens = 0
  /\ timers = <<>>
  /\ pollTimer = NoTimer
  /\ inflight = [o \in Origins |-> 0]
  /\ everLoaded = FALSE
  /\ raced = "none"
  /\ last = Event("none", "none", 0)
  /\ probe = NoProbe

\* The number of requests that have not settled
Outstanding ==
  inflight["mount"] + inflight["debounce"] + inflight["message"]
    + inflight["poll"] + inflight["retry"]

CanFetch(o) == Outstanding < MaxInflight

\* fetchAllData(): the request goes out, its promise settles later
fetchAllData(o) ==
  /\ inflight' = [inflight EXCEPT ![o] = @ + 1]
  /\ raced' = "none"

\* Mutant: the subscription is not opened by the effect
OpenEventSource_Deferred == UNCHANGED <<esState, esOpens>>

\* new EventSource(...) succeeds
OpenEventSource ==
  /\ esState' = "open"
  /\ esOpens' = esOpens + 1

\* The effect: initial fetch, then the subscription
Mount ==
  /\ phase = "init"
  /\ CanFetch("mount")
  /\ fetchAllData("mount")
  /\ IF esAvailable
     THEN /\ OpenEventSource
          /\ phase' = "mounted"
          /\ UNCHANGED pollTimer
     ELSE IF version = "plain"
     THEN \* catch: fall back to polling
          /\ pollTimer' = PollMs
          /\ phase' = "mounted"
          /\ UNCHANGED <<esState, esOpens>>
     ELSE \* the constructor's error leaves the effect: the tree is torn down
          /\ phase' = "crashed"
          /\ UNCHANGED <<esState, esOpens, pollTimer>>
  /\ last' = Event("mount", "mount", 0)
  /\ UNCHANGED <<version, esAvailable, probe, data, cities, isLoading, timers, everLoaded>>

\* What a success that lands now says about the requests that were outstanding
\* together: "first" when others are still outstanding, "both" when one of
\* them landed before and no request was issued since
Raced ==
  IF raced # "none" THEN "both"
  ELSE IF Outstanding >= 2 THEN "first"
  ELSE "none"

\* Mutant: the handler merges the response into the snapshot, key by key
OnSuccess_Merge(json) ==
  /\ data' = SelectSeq(data, LAMBDA kv : \A i \in 1..Len(json) : json[i][1] # kv[1])
              \o json
  /\ cities' = Cities(data')
  /\ isLoading' = FALSE
  /\ everLoaded' = TRUE

\* Mutant: a response that lands after a response it raced with is dropped
OnSuccess_FirstWins(json) ==
  /\ data' = IF raced # "none" THEN data ELSE json
  /\ cities' = Cities(data')
  /\ isLoading' = FALSE
  /\ everLoaded' = TRUE

\* .then((json) => {...})
OnSuccess(json) ==
  /\ data' = json
  /\ cities' = Cities(data')
  /\ isLoading' = FALSE
  /\ everLoaded' = TRUE

\* Mutant: the handler leaves the snapshot as it was
OnFailure_KeepsData ==
  /\ isLoading' = FALSE
  /\ UNCHANGED <<data, cities, everLoaded>>

\* Mutant: the handler stores a value that was never assigned
OnFailure_Undefined ==
  /\ isLoading' = FALSE
  /\ data' = Undefined
  /\ cities' = Cities(data')
  /\ UNCHANGED everLoaded

\* Mutant: the handler does not clear the loading flag
OnFailure_StaysLoading ==
  /\ data' = mockData
  /\ cities' = Cities(data')
  /\ UNCHANGED <<isLoading, everLoaded>>

\* .catch((err) => {...})
OnFailure ==
  /\ isLoading' = FALSE
  /\ data' = mockData
  /\ cities' = Cities(data')
  /\ UNCHANGED everLoaded

\* A request settles with an HTTP response
FetchResponse(o, status, body) ==
  /\ inflight[o] > 0
  /\ inflight' = [inflight EXCEPT ![o] = @ - 1]
  /\ IF phase # "mounted" THEN UNCHANGED <<data, cities, isLoading, everLoaded>>
     ELSE IF IsJson(body) THEN OnSuccess(body)
     ELSE OnFailure
  /\ raced' = IF phase = "mounted" /\ IsJson(body) THEN Raced ELSE "none"
  /\ last' = Settlement(IF IsJson(body) THEN "success" ELSE "failure", o, status, body)
  /\ UNCHANGED <<version, esAvailable, probe, phase, esState, esOpens, timers, pollTimer>>

\* A request settles with a network failure: fetch rejects
FetchNetworkError(o) ==
  /\ inflight[o] > 0
  /\ inflight' = [inflight EXCEPT ![o] = @ - 1]
  /\ IF phase # "mounted" THEN UNCHANGED <<data, cities, isLoading, everLoaded>>
     ELSE OnFailure
  /\ raced' = "none"
  /\ last' = Event("failure", o, 0)
  /\ UNCHANGED <<version, esAvailable, probe, phase, esState, esOpens, timers, pollTimer>>

\* debouncedFetchAllData(): the returned cancel function is dropped by the caller
debouncedFetchAllData == timers' = Append(timers, DebounceMs)

\* What event.data may hold; the listeners only log it
Payloads == {"", "{\"city\":\"Paris\"}"}

Notification(kind, payload) ==
  [op |-> "sse", origin |-> kind, status |-> 0, payload |-> payload]

\* Mutant: the version has no listener for the events of the push channel
SseEvent_NoListener(kind, payload) ==
  /\ esState = "open"
  /\ last' = Notification(kind, payload)
  /\ UNCHANGED <<version, esAvailable, probe, phase, data, cities, isLoading, esState, esOpens,
                 pollTimer, everLoaded, timers, inflight, raced>>

\* The push channel delivers an event, named "update" or unnamed ("message"):
\* addEventListener("update", ...) in the memoized version, onmessage in the
\* plain version
SseEvent(kind, payload) ==
  /\ esState = "open"
  /\ IF version = "memo" /\ kind = "update"
     THEN /\ Len(timers) < MaxTimers
          /\ debouncedFetchAllData
          /\ UNCHANGED <<inflight, raced>>
     ELSE IF version = "plain" /\ kind = "message"
     THEN /\ CanFetch("message")
          /\ fetchAllData("message")
          /\ UNCHANGED timers
     ELSE UNCHANGED <<timers, inflight, raced>>
  /\ last' = Notification(kind, payload)
  /\ UNCHANGED <<version, esAvailable, probe, phase, data, cities, isLoading, esState, esOpens,
                 pollTimer, everLoaded>>

\* Mutant: the handler does not close the channel, which then stays connected
SseError_NoClose ==
  /\ esState = "open"
  /\ esState' = "open"
  /\ last' = Event("sseerror", "none", 0)
  /\ UNCHANGED <<version, esAvailable, probe, raced, phase, data, cities, isLoading, esOpens, timers,
                 pollTimer, inflight, everLoaded>>

\* eventSource.onerror
SseError ==
  /\ esState = "open"
  /\ esState' = "closed"
  /\ last' = Event("sseerror", "none", 0)
  /\ UNCHANGED <<version, esAvailable, probe, raced, phase, data, cities, isLoading, esOpens, timers,
                 pollTimer, inflight, everLoaded>>

\* Mutant: the refresh shows the loading screen, as the retry handler does
DebounceFire_ShowsLoading ==
  /\ timers # <<>>
  /\ Head(timers) = 0
  /\ CanFetch("debounce")
  /\ fetchAllData("debounce")
  /\ timers' = Tail(timers)
  /\ isLoading' = TRUE
  /\ last' = Event("timeout", "debounce", 0)
  /\ UNCHANGED <<version, esAvailable, probe, phase, data, cities, esState, esOpens,
                 pollTimer, everLoaded>>

\* A debounce timeout expires: setTimeout(fetchAllData, 1000)
DebounceFire ==
  /\ timers # <<>>
  /\ Head(timers) = 0
  /\ CanFetch("debounce")
  /\ fetchAllData("debounce")
  /\ timers' = Tail(timers)
  /\ last' = Event("timeout", "debounce", 0)
  /\ UNCHANGED <<version, esAvailable, probe, phase, data, cities, isLoading, esState, esOpens,
                 pollTimer, everLoaded>>

\* The polling interval expires: setInterval(fetchAllData, 10000)
PollFire ==
  /\ pollTimer = 0
  /\ CanFetch("poll")
  /\ fetchAllData("poll")
  /\ pollTimer' = PollMs
  /\ last' = Event("interval", "poll", 0)
  /\ UNCHANGED <<version, esAvailable, probe, phase, data, cities, isLoading, esState, esOpens,
                 timers, everLoaded>>

\* How far the clock moves in one step: to the polling deadline when no
\* debounce timeout is pending, by one tick otherwise
Advance == IF timers = <<>> THEN pollTimer ELSE TickMs

Elapse(t) == IF t > Advance THEN t - Advance ELSE 0

\* Time passes; a timer that is due runs before more time passes
Tick ==
  /\ timers # <<>> \/ pollTimer # NoTimer
  /\ \A i \in 1..Len(timers) : timers[i] > 0
  /\ pollTimer # 0
  /\ timers' = [i \in 1..Len(timers) |-> Elapse(timers[i])]
  /\ pollTimer' = IF pollTimer = NoTimer THEN NoTimer ELSE Elapse(pollTimer)
  /\ last' = Event("tick", "none", 0)
  /\ UNCHANGED <<version, esAvailable, probe, raced, phase, data, cities, isLoading, esState, esOpens,
                 inflight, everLoaded>>

\* Mutant: the retry button is rendered in every state of the dashboard
RetryShown_Always == phase = "mounted"

\* The retry button exists only in the empty state of the loaded dashboard
RetryShown == phase = "mounted" /\ ~isLoading /\ Len(cities) = 0

\* handleRetryConnection (memoized version); onClick={fetchAllData} (plain version)
HandleRetry ==
  /\ RetryShown
  /\ CanFetch("retry")
  /\ isLoading' = (version = "memo")
  /\ fetchAllData("retry")
  /\ last' = Event("retry", "retry", 0)
  /\ UNCHANGED <<version, esAvailable, probe, phase, data, cities, esState, esOpens, timers,
                 pollTimer, everLoaded>>

\* The effect's cleanup
Unmount ==
  /\ phase = "mounted"
  /\ phase' = "unmounted"
  /\ IF esAvailable
     THEN esState' = "closed" /\ UNCHANGED pollTimer
     ELSE pollTimer' = NoTimer /\ UNCHANGED esState
  /\ last' = Event("unmount", "none", 0)
  /\ UNCHANGED <<version, esAvailable, probe, raced, data, cities, isLoading, esOpens, timers, inflight,
                 everLoaded>>

Next ==
  \/ Mount
  \/ \E o \in Origins, status \in Statuses, body \in Bodies : FetchResponse(o, status, body)
  \/ \E o \in Origins : FetchNetworkError(o)
  \/ \E kind \in {"update", "message"}, payload \in Payloads : SseEvent(kind, payload)
  \/ SseError
  \/ DebounceFire
  \/ PollFire
  \/ Tick
  \/ HandleRetry
  \/ Unmount

Spec == Init /\ [][Next]_vars

\* Some outstanding request settles
Settle ==
  \/ \E o \in Origins, status \in Statuses, body \in Bodies : FetchResponse(o, status, body)
  \/ \E o \in Origins : FetchNetworkError(o)

\* The effect runs after the first render and every outstanding request
\* settles
FairSpec ==
  /\ Spec
  /\ WF_vars(Mount)
  /\ WF_vars(Settle)

\* Every outstanding request settles, time passes, and the callback of a
\* timeout that is due runs whatever else the event loop has to do
TimerFairSpec ==
  /\ Spec
  /\ WF_vars(Settle)
  /\ WF_vars(Tick)
  /\ SF_vars(DebounceFire)

(***************************************************************************)
(* Aggregation of generated snapshots: the server answers the initial      *)
(* fetch with a snapshot drawn from a bounded set of JSON objects          *)
(***************************************************************************)
MaxEntries == 2

MaxSegments == 4

Namespaces == {"smartcity", "city"}

SnapMetrics == {"temperature", "foo", "constructor"}

SnapCities == {"Paris", "Rome", "constructor"}

\* A key of three segments followed by n more
RECURSIVE Padded(_, _)
Padded(key, n) == IF n = 0 THEN key ELSE Padded(key \o <<":", "x">>, n - 1)

SnapKeys ==
  {Key(ns, m, c) : ns \in Namespaces, m \in SnapMetrics, c \in SnapCities}
    \cup {<<"smartcity">>, <<"smartcity", ":", "temperature">>}
    \cup {Padded(Key("smartcity", "temperature", "Paris"), n) : n \in 1..(MaxSegments - 3)}

\* The value of the i-th entry: every entry of a snapshot has its own
ValueAt(i) ==
  CASE i = 1 -> <<"2", "1">>
    [] i = 2 -> <<"3", "5">>
    [] OTHER -> <<"7">>

\* JSON objects of at most MaxEntries entries: the keys of an object differ
Snapshots ==
  UNION {{[i \in 1..n |-> <<ks[i], ValueAt(i)>>] :
            ks \in {f \in [1..n -> SnapKeys] :
                      \A i, j \in 1..n : i # j => f[i] # f[j]}} :
         n \in 0..MaxEntries}

AggInit ==
  /\ version \in Versions
  /\ esAvailable = TRUE
  /\ phase = "init"
  /\ data = <<>>
  /\ cities = <<>>
  /\ isLoading = TRUE
  /\ esState = "none"
  /\ esOpens = 0
  /\ timers = <<>>
  /\ pollTimer = NoTimer
  /\ inflight = [o \in Origins |-> 0]
  /\ everLoaded = FALSE
  /\ raced = "none"
  /\ last = Event("none", "none", 0)
  /\ probe \in {[kind |-> "snapshot", json |-> d] : d \in Snapshots}

AggNext ==
  \/ Mount
  \/ FetchResponse("mount", 200, probe.json)

AggSpec == AggInit /\ [][AggNext]_vars

(***************************************************************************)
(* Severity color of a metric value                                        *)
(***************************************************************************)
Digits == <<"0", "1", "2", "3", "4", "5", "6", "7", "8", "9">>

IsDigit(c) == \E n \in 1..Len(Digits) : Digits[n] = c

DigitValue(c) == (CHOOSE n \in 1..Len(Digits) : Digits[n] = c) - 1

\* The length of the longest prefix of digits
RECURSIVE DigitRun(_)
DigitRun(chars) ==
  IF chars = <<>> \/ ~IsDigit(Head(chars)) THEN 0
  ELSE 1 + DigitRun(Tail(chars))

RECURSIVE DecimalValue(_)
DecimalValue(ds) ==
  IF ds = <<>> THEN 0
  ELSE 10 * DecimalValue(SubSeq(ds, 1, Len(ds) - 1)) + DigitValue(ds[Len(ds)])

RECURSIVE Pow10(_)
Pow10(n) == IF n = 0 THEN 1 ELSE 10 * Pow10(n - 1)

NaN == [nan |-> TRUE]

\* parseFloat(value): the longest prefix that is a decimal literal (sign,
\* digits, point, digits), as the exact fraction num / den; NaN when no prefix
\* is one.  Exponents, "Infinity" and leading blanks are not modelled: the
\* characters of the generated values cannot spell them.
ParseFloat(chars) ==
  LET signed == chars # <<>> /\ Head(chars) \in {"-", "+"}
      body == IF signed THEN Tail(chars) ELSE chars
      ni == DigitRun(body)
      after == SubSeq(body, ni + 1, Len(body))
      hasDot == after # <<>> /\ Head(after) = "."
      nf == IF hasDot THEN DigitRun(Tail(after)) ELSE 0
      mag == DecimalValue(SubSeq(body, 1, ni) \o
                          (IF hasDot THEN SubSeq(Tail(after), 1, nf) ELSE <<>>))
  IN IF ni + nf = 0 THEN NaN
     ELSE [nan |-> FALSE,
           num |-> IF signed /\ Head(chars) = "-" THEN 0 - mag ELSE mag,
           den |-> Pow10(nf)]

\* numValue > t
Greater(n, t) == n.num > t * n.den

getStatusColor_Inclusive(metric, value) ==
  LET numValue == ParseFloat(value) IN
    IF numValue.nan THEN "#3498db"
    ELSE CASE metric = "temperature" ->
                IF numValue.num >= 30 * numValue.den THEN "#e74c3c"
                ELSE IF numValue.num >= 20 * numValue.den THEN "#e67e22" ELSE "#3498db"
           [] metric = "humidity" ->
                IF Greater(numValue, 80) THEN "#3498db"
                ELSE IF Greater(numValue, 50) THEN "#2ecc71" ELSE "#f1c40f"
           [] metric = "air_quality" ->
                IF Greater(numValue, 150) THEN "#e74c3c"
                ELSE IF Greater(numValue, 100) THEN "#e67e22" ELSE "#2ecc71"
           [] OTHER ->
                IF Greater(numValue, 50) THEN "#e74c3c"
                ELSE IF Greater(numValue, 30) THEN "#e67e22" ELSE "#2ecc71"

getStatusColor_GreenNominal(metric, value) ==
  LET numValue == ParseFloat(value) IN
    IF numValue.nan THEN "#3498db"
    ELSE CASE metric = "temperature" ->
                IF Greater(numValue, 30) THEN "#e74c3c"
                ELSE IF Greater(numValue, 20) THEN "#e67e22" ELSE "#2ecc71"
           [] metric = "humidity" ->
                IF Greater(numValue, 80) THEN "#3498db"
                ELSE IF Greater(numValue, 50) THEN "#2ecc71" ELSE "#f1c40f"
           [] metric = "air_quality" ->
                IF Greater(numValue, 150) THEN "#e74c3c"
                ELSE IF Greater(numValue, 100) THEN "#e67e22" ELSE "#2ecc71"
           [] OTHER ->
                IF Greater(numValue, 50) THEN "#e74c3c"
                ELSE IF Greater(numValue, 30) THEN "#e67e22" ELSE "#2ecc71"

getStatusColor(metric, value) ==
  LET numValue == ParseFloat(value) IN
    IF numValue.nan THEN "#3498db"
    ELSE CASE metric = "temperature" ->
                IF Greater(numValue, 30) THEN "#e74c3c"
                ELSE IF Greater(numValue, 20) THEN "#e67e22" ELSE "#3498db"
           [] metric = "humidity" ->
                IF Greater(numValue, 80) THEN "#3498db"
                ELSE IF Greater(numValue, 50) THEN "#2ecc71" ELSE "#f1c40f"
           [] metric = "air_quality" ->
                IF Greater(numValue, 150) THEN "#e74c3c"
                ELSE IF Greater(numValue, 100) THEN "#e67e22" ELSE "#2ecc71"
           [] OTHER ->
                IF Greater(numValue, 50) THEN "#e74c3c"
                ELSE IF Greater(numValue, 30) THEN "#e67e22" ELSE "#2ecc71"

MaxValueLen == 3

ValueChars == {"0", "1", "2", "3", "5", "8", ".", "-", "a"}

ProbeValues == UNION {[1..n -> ValueChars] : n \in 0..MaxValueLen}

ProbeMetrics == {"temperature", "humidity", "air_quality", "noise_level", "unknown_metric"}

\* The server answers the initial fetch with one metric of one city
SeverityInit ==
  /\ version \in Versions
  /\ esAvailable = TRUE
  /\ phase = "init"
  /\ data = <<>>
  /\ cities = <<>>
  /\ isLoading = TRUE
  /\ esState = "none"
  /\ esOpens = 0
  /\ timers = <<>>
  /\ pollTimer = NoTimer
  /\ inflight = [o \in Origins |-> 0]
  /\ everLoaded = FALSE
  /\ raced = "none"
  /\ last = Event("none", "none", 0)
  /\ probe \in {[kind |-> "metric", color |-> "none",
                  json |-> << <<Key("smartcity", m, "Paris"), v>> >>] :
                 m \in ProbeMetrics, v \in ProbeValues}

\* MetricItem renders the metric of the city card: statusColor
RenderMetric ==
  /\ View = "dashboard"
  /\ probe.kind = "metric"
  /\ probe.color = "none"
  /\ probe' = [probe EXCEPT !.color =
                 getStatusColor(cities[1].metrics[1].metric, cities[1].metrics[1].value)]
  /\ UNCHANGED <<version, esAvailable, phase, data, cities, isLoading, esState, esOpens,
                 timers, pollTimer, inflight, everLoaded, raced, last>>

SeverityNext ==
  \/ Mount
  \/ FetchResponse("mount", 200, probe.json)
  \/ RenderMetric

SeveritySpec == SeverityInit /\ [][SeverityNext]_vars

(***************************************************************************)
(* Properties                                                              *)
(***************************************************************************)
Settled == last.op \in {"success", "failure"}

\* C1: when an "update" notification arrives less than the debounce interval
\* after the previous one, the previous one's timer is canceled, so that the
\* burst has one pending timer and issues one fetch at its trailing edge: any
\* two pending debounce timers were set at least one interval apart.
C1_BurstHasOneTimer ==
  \A i, j \in 1..Len(timers) : i < j => timers[j] - timers[i] >= DebounceMs

\* C2: once the push channel has reported an error, the polling interval is
\* running (a fetch is issued every PollMs until shutdown).
C2_PollAfterPushError ==
  (phase = "mounted" /\ esState = "closed") => pollTimer # NoTimer

\* C3: a fetch failure that is handled after a snapshot was loaded successfully
\* leaves the snapshot (and so the city groups) as it was.
C3_FailureKeepsSnapshot ==
  [][(last'.op = "failure" /\ phase = "mounted" /\ everLoaded) => data' = data]_vars

\* C4: once the failure of the initial fetch is handled, loading is false, the
\* snapshot is the built-in fallback dataset and its aggregation has exactly
\* the cities NewYork, London and Tokyo; the engine keeps running.
C4_InitialFailureFallback ==
  (last.op = "failure" /\ last.origin = "mount" /\ phase = "mounted")
    => /\ ~isLoading
       /\ data = mockData
       /\ Len(Cities(data)) = 3
       /\ CityNames(Cities(data)) = {"NewYork", "London", "Tokyo"}

C4_Witness ==
  /\ last.op = "failure" /\ last.origin = "mount" /\ phase = "mounted"
  /\ ~isLoading /\ data = mockData

\* C5: after shutdown the push channel is closed and no debounce or poll timer
\* is pending, so no callback can fire and issue a fetch.
C5_ShutdownCancelsAll ==
  phase = "unmounted" => (esState # "open" /\ timers = <<>> /\ pollTimer = NoTimer)

\* C6: a response with a non-2xx status is handled as a fetch failure, exactly
\* like a network failure: its body is not stored, the failure handler's state
\* results.
C6_NonOkIsFailure ==
  (Settled /\ last.status # 0 /\ ~IsOk(last.status) /\ phase = "mounted")
    => (data = mockData /\ ~isLoading)

\* C7: a push-channel error closes the channel, a closed channel is never
\* reopened, and the engine opens at most one subscription.
C7_NoReconnect ==
  /\ [](esOpens <= 1)
  /\ [](last.op = "sseerror" => esState = "closed")
  /\ [][esState = "closed" => esState' = "closed"]_vars

C7_Witness ==
  /\ phase = "mounted" /\ esState = "closed" /\ esOpens = 1
  /\ Settled /\ last.origin = "retry"

C9_OpenAfterInitialSuccess ==
  [][esOpens' > esOpens => (everLoaded /\ ~isLoading)]_vars

\* C9 amended: the subscription is opened by the step that issues the initial
\* fetch, while that fetch is outstanding and loading is true, and by no other
\* step; the settling of a fetch does not open or close it.
C9_OpenWithInitialFetch ==
  /\ []((last.op = "mount" /\ esAvailable) => esState = "open")
  /\ [][esOpens' > esOpens
          => (phase = "init" /\ isLoading' /\ inflight'["mount"] = 1 /\ ~everLoaded')]_vars
  /\ [][last'.op \in {"success", "failure"} => esState' = esState]_vars

C9_Witness ==
  /\ last.op = "mount" /\ esState = "open" /\ esOpens = 1
  /\ isLoading /\ inflight["mount"] = 1 /\ ~everLoaded

WellFormed(cityMap) ==
  /\ \A i \in 1..Len(cityMap) : Len(cityMap[i].metrics) > 0
  /\ \A i, j \in 1..Len(cityMap) : cityMap[i].city = cityMap[j].city => i = j

C11_WholesaleReplace ==
  /\ (last.op = "success" /\ phase = "mounted") => data = last.body
  /\ cities = Cities(data)

C11_Witness ==
  /\ last.op = "success" /\ phase = "mounted" /\ last.origin # "mount"
  /\ data = LiveBody /\ Len(cities) = 1

\* C12: when requests were outstanding together and succeeded one after the
\* other, the snapshot is the response of the one that landed last, whichever
\* was issued first.
C12_LastCompletedWins ==
  (raced = "both" /\ last.op = "success" /\ phase = "mounted")
    => (data = last.body /\ cities = Cities(last.body))

C12_Witness ==
  /\ raced = "both" /\ last.op = "success" /\ last.origin = "mount"
  /\ phase = "mounted" /\ data = LiveBody /\ Outstanding = 0

Running == phase \in {"init", "mounted"}

\* C13: the engine starts with loading true and no city group, and while it
\* runs, loading true leads to loading false, provided every outstanding
\* request settles: for the initial load and after every manual retry.
C13_LoadingEnds ==
  /\ [](phase = "init" => (isLoading /\ cities = <<>>))
  /\ (isLoading /\ Running) ~> (~isLoading \/ ~Running)

C13_Witness ==
  /\ ~isLoading /\ phase = "mounted" /\ version = "memo"
  /\ last.op \in {"success", "failure"} /\ last.origin = "retry"

\* The kind of notification the running version has a listener for
Listens(kind) ==
  \/ version = "memo" /\ kind = "update"
  \/ version = "plain" /\ kind = "message"

\* C14 as stated: every notification received on the open channel, named
\* "update" or unnamed, leaves a fetch scheduled or issued.
C14_EveryNotificationFetches ==
  last.op = "sse" => (timers # <<>> \/ inflight["message"] > 0)

\* C14 amended: a notification of the kind the version listens for sets a
\* debounce timeout (memoized) or issues a fetch at once (plain), whatever its
\* payload, and every timeout set leads to a fetch; a notification of the
\* other kind changes nothing; no notification touches the snapshot.
C14_ListenedNotificationFetches ==
  /\ [][last'.op = "sse"
          => /\ IF ~Listens(last'.origin) THEN timers' = timers /\ inflight' = inflight
                ELSE IF version = "memo"
                THEN timers' = Append(timers, DebounceMs) /\ inflight' = inflight
                ELSE /\ inflight' = [inflight EXCEPT !["message"] = @ + 1]
                     /\ timers' = timers
             /\ UNCHANGED <<data, cities, isLoading, phase, esState, pollTimer>>]_vars
  /\ (timers # <<>>) ~> (last.op = "timeout")

C14_Witness ==
  /\ last.op = "timeout" /\ inflight["debounce"] > 0 /\ version = "memo"

\* The colon-delimited segments of a generated key, read off its tokens
SegCount(key) == (Len(key) + 1) \div 2

Seg(key, j) == key[2 * j - 1]

\* C15: once a snapshot is loaded, each of its keys with exactly three
\* colon-delimited segments is read as metric = its second segment and
\* city = its third segment, whatever its first (namespace) segment is; a key
\* with any other number of segments is skipped and contributes nothing to
\* the grouping
C15_KeyParsing ==
  last.op = "success" =>
    \A i \in 1..Len(data) :
      LET key == data[i][1]
          rest == [j \in 1..(Len(data) - 1) |-> IF j < i THEN data[j] ELSE data[j + 1]]
      IN IF SegCount(key) = 3
         THEN /\ ParseKey(key) = [metric |-> Seg(key, 2), city |-> Seg(key, 3)]
              /\ \A ns \in Namespaces : ParseKey(<<ns>> \o Tail(key)) = ParseKey(key)
         ELSE /\ ParseKey(key) = Skipped
              /\ Cities(rest) = cities

C15_Witness ==
  /\ last.op = "success"
  /\ Len(data) = 2
  /\ SegCount(data[1][1]) = 4
  /\ data[2][1] = Key("city", "foo", "Rome")
  /\ Len(cities) = 1
  /\ cities[1].city = "Rome"
  /\ cities[1].metrics[1].metric = "foo"

\* The entries a snapshot holds for city c: one per 3-segment key whose city
\* segment is c, in traversal order
EntriesOf(d, c) ==
  LET Mine(kv) == SegCount(kv[1]) = 3 /\ Seg(kv[1], 3) = c
      sel == SelectSeq(d, Mine)
  IN [i \in 1..Len(sel) |-> [metric |-> Seg(sel[i][1], 2), value |-> sel[i][2]]]

\* The city segments of the 3-segment keys of a snapshot
CitiesNamed(d) ==
  {Seg(d[i][1], 3) : i \in {j \in 1..Len(d) : SegCount(d[j][1]) = 3}}

\* C16: once a snapshot is loaded, the groups are exactly the cities named by
\* its 3-segment keys, one group per city, and the group of city c holds
\* exactly one entry per 3-segment key whose city segment is c, with that
\* key's metric name and raw value, in traversal order
C16_GroupsPerCity ==
  last.op = "success" =>
    /\ CityNames(cities) = CitiesNamed(data)
    /\ Len(cities) = Cardinality(CitiesNamed(data))
    /\ \A g \in 1..Len(cities) :
         [i \in 1..Len(cities[g].metrics) |->
            [metric |-> cities[g].metrics[i].metric, value |-> cities[g].metrics[i].value]]
           = EntriesOf(data, cities[g].city)

\* The number of 3-segment keys of a snapshot
ThreeSegmentKeys(d) ==
  Cardinality({i \in 1..Len(d) : IsMapping(d) /\ SegCount(d[i][1]) = 3})

\* C17: in every state metricCount is the number of 3-segment keys of the
\* snapshot, cityCount is the number of groups, the empty state is shown iff
\* loading is false and there is no group, and a loaded snapshot without a
\* 3-segment key is shown as empty
C17_ViewModel ==
  /\ Stats(cities).metricCount = ThreeSegmentKeys(data)
  /\ Stats(cities).cityCount = Len(cities)
  /\ (View = "empty") <=> (~isLoading /\ cities = <<>>)
  /\ (last.op = "success" /\ ThreeSegmentKeys(data) = 0) => View = "empty"

\* The entries of a snapshot whose key has three segments and names a metric
\* outside the registry
UnknownMetricKeys(d) ==
  {i \in 1..Len(d) : SegCount(d[i][1]) = 3 /\ Seg(d[i][1], 2) \notin KnownMetrics}

\* C19: once a snapshot is loaded, every 3-segment key whose metric is not one
\* of the eight known metrics has an entry in the group of its city, with its
\* value, the generic icon and the empty unit, and is counted in metricCount
C19_UnknownMetricKept ==
  last.op = "success" =>
    /\ \A i \in UnknownMetricKeys(data) :
         \E g \in 1..Len(cities) :
           /\ cities[g].city = Seg(data[i][1], 3)
           /\ \E k \in 1..Len(cities[g].metrics) :
                /\ cities[g].metrics[k].metric = Seg(data[i][1], 2)
                /\ cities[g].metrics[k].value = data[i][2]
                /\ cities[g].metrics[k].config.icon = DEFAULT_CONFIG.icon
                /\ cities[g].metrics[k].config.unit = ""
    /\ Stats(cities).metricCount >= Cardinality(UnknownMetricKeys(data))

\* The rule a metric is classified by, and the threshold table: the bands
\* from the highest down, with the color of each
Rule(metric) ==
  IF metric \in {"temperature", "humidity", "air_quality"} THEN metric ELSE "default"

BandTable ==
  [temperature |-> [hi |-> 30, lo |-> 20,
                    bands |-> <<"critical", "warning", "nominal">>,
                    colors |-> <<"#e74c3c", "#e67e22", "#3498db">>],
   humidity    |-> [hi |-> 80, lo |-> 50,
                    bands |-> <<"info", "nominal", "caution">>,
                    colors |-> <<"#3498db", "#2ecc71", "#f1c40f">>],
   air_quality |-> [hi |-> 150, lo |-> 100,
                    bands |-> <<"critical", "warning", "nominal">>,
                    colors |-> <<"#e74c3c", "#e67e22", "#2ecc71">>],
   default     |-> [hi |-> 50, lo |-> 30,
                    bands |-> <<"critical", "warning", "nominal">>,
                    colors |-> <<"#e74c3c", "#e67e22", "#2ecc71">>]]

NeutralColor == "#3498db"

\* The position in the table of the band of a number: first match wins
BandIndex(metric, n) ==
  IF n.num > BandTable[Rule(metric)].hi * n.den THEN 1
  ELSE IF n.num > BandTable[Rule(metric)].lo * n.den THEN 2
  ELSE 3

\* The metric and the value the rendered item shows
Rendered == probe.kind = "metric" /\ probe.color # "none"

ShownMetric == Seg(probe.json[1][1], 2)

ShownValue == probe.json[1][2]

\* C18: the color of a rendered metric is the color of the band the threshold
\* table gives its value with strict greater-than, first match wins;
\* a value equal to a threshold gets the band below it, and a value that
\* does not parse as a number gets the neutral color
C18_ThresholdTable ==
  Rendered =>
    LET n == ParseFloat(ShownValue)
        row == BandTable[Rule(ShownMetric)]
    IN /\ n.nan => probe.color = NeutralColor
       /\ ~n.nan => probe.color = row.colors[BandIndex(ShownMetric, n)]
       /\ (~n.nan /\ n.num = row.hi * n.den) => probe.color = row.colors[2]
       /\ (~n.nan /\ n.num = row.lo * n.den) => probe.color = row.colors[3]
       /\ ShownValue = <<"a">> => probe.color = NeutralColor

C18_Witness ==
  /\ Rendered
  /\ ShownMetric = "air_quality"
  /\ ShownValue = <<"1", "5", "0">>
  /\ probe.color = "#e67e22"

\* The band of the rendered value, when it parses as a number
ShownBand ==
  LET n == ParseFloat(ShownValue) IN
    IF n.nan THEN "neutral"
    ELSE BandTable[Rule(ShownMetric)].bands[BandIndex(ShownMetric, n)]

NominalColor == "#2ecc71"

InfoColor == "#3498db"

\* C20: a rendered value of the nominal band has the same color for every
\* metric, and that color is neither the neutral color of a non-numeric
\* value nor the info color of humidity
C20_NominalColorShared ==
  (Rendered /\ ShownBand = "nominal") =>
    /\ probe.color = getStatusColor("unknown_metric", <<"1", "0">>)
    /\ probe.color # NeutralColor
    /\ probe.color # InfoColor

\* C20 as the code has it: the nominal band has one color for every metric
\* but temperature, different from the neutral and the info color; the
\* nominal band of temperature has the neutral color, which is also the info
\* color of humidity; critical, warning and caution have one color each,
\* whatever the metric
C20_NominalColorButTemperature ==
  Rendered =>
    /\ (ShownBand = "nominal" /\ ShownMetric # "temperature") =>
         /\ probe.color = NominalColor
         /\ probe.color # NeutralColor
         /\ probe.color # InfoColor
    /\ (ShownBand = "nominal" /\ ShownMetric = "temperature") =>
         /\ probe.color = NeutralColor
         /\ probe.color = InfoColor
    /\ ShownBand = "critical" => probe.color = "#e74c3c"
    /\ ShownBand = "warning" => probe.color = "#e67e22"
    /\ ShownBand = "caution" => probe.color = "#f1c40f"
    /\ ShownBand \in {"info", "neutral"} => probe.color = NeutralColor

C20_Witness ==
  /\ Rendered
  /\ ShownMetric = "temperature"
  /\ ShownValue = <<"1", "0">>
  /\ ShownBand = "nominal"
  /\ probe.color = NeutralColor

\* The origins of a refresh: a notification (at once or after the debounce
\* delay) and the polling interval
RefreshOrigins == {"update", "message", "debounce", "poll"}

\* C21: a step that takes loading from false to true is a manual retry that
\* issues a fetch; no step of a refresh (the notification, the timer that
\* fires, the fetch settling with success or failure) takes loading from false
\* to true
C21_OnlyRetrySetsLoading ==
  [][/\ (~isLoading /\ isLoading') =>
          /\ last'.op = "retry"
          /\ inflight'["retry"] = inflight["retry"] + 1
     /\ (~isLoading /\ last'.origin \in RefreshOrigins) => ~isLoading']_vars

C21_Witness ==
  /\ last.op = "failure"
  /\ last.origin = "poll"
  /\ everLoaded
  /\ ~isLoading
  /\ phase = "mounted"

TypeOK ==
  /\ version \in Versions
  /\ phase \in {"init", "mounted", "unmounted", "crashed"}
  /\ isLoading \in BOOLEAN
  /\ esState \in {"none", "open", "closed"}
  /\ Len(timers) <= MaxTimers
  /\ \A o \in Origins : inflight[o] \in 0..MaxInflight

====
